---- MODULE Spec2Model ----
(***************************************************************************)
(* MineGuard backend: the sensor classifier, the hazard spread model, the  *)
(* exposure evaluator (utils/simulation.py) and the request handlers that  *)
(* create hazards and change their status (routes/sensors.py,              *)
(* routes/hazards.py, models.py).                                          *)
(*                                                                         *)
(* Numbers.  Sensor values are integers.  Coordinates are counted in units *)
(* of 1e-4 degree (the precision of MOCK_WORKERS), spread rates in units   *)
(* of 1e-4 per second and zone radii in units of 1e-6, so that the         *)
(* factors 0.33, 0.67 and 1.0 are the integers 33, 67 and 100 and every    *)
(* comparison of the code is decided exactly.                              *)
(***************************************************************************)
EXTENDS Integers, Sequences, FiniteSets, TLC

VARIABLES
    reading,        \* the (co2, temperature, humidity) handed to the classifier
    detected,       \* what detect_hazard_from_sensors returned for it
    simHazard,      \* the hazard document handed to the simulation
    simWorkers,     \* the worker list handed to the simulation
    simTime,        \* simulation_time_seconds
    zones,          \* what calculate_danger_zones returned
    affected,       \* what get_affected_workers returned
    called,         \* the functions of utils/simulation.py that have returned
    frameArgs,      \* total_seconds and fps handed to the frame generator
    frames,         \* what generate_simulation_frames returned
    hazards,        \* hazards_collection, in insertion order
    sensorLog,      \* the number of documents of sensors_collection
    req,            \* per request: its input, the handler's locals and position
    emitted,        \* the socket events broadcast so far
    now             \* the last value datetime.utcnow() returned

simVars == <<reading, detected, simHazard, simWorkers, simTime, zones, affected, called,
             frameArgs, frames>>

storeVars == <<hazards, sensorLog, req, emitted, now>>

vars == <<simVars, storeVars>>

\* Python's None.
None == "None"

-----------------------------------------------------------------------------
(* Bounds and input sets                                                   *)

\* Simulation times run over -MaxTime .. MaxTime seconds.
MaxTime == 5

\* Worker lists hold at most MaxWorkers workers.
MaxWorkers == 2

\* The frame generator is asked for at most MaxTotalSeconds seconds ...
MaxTotalSeconds == 6

\* ... at 1 .. MaxFps frames per second.
MaxFps == 3

\* The requests the server handles, each by a thread of its own.
NumRequests == 2

Co2Values == {400, 800, 801, 1000, 1001, 1500, 2000, 2001}
TemperatureValues == {25, 40, 41, 55, 56, 60}
HumidityValues == {10, 19, 20, 60}

Readings == [co2 : Co2Values, temperature : TemperatureValues, humidity : HumidityValues]

\* Hazard types handed to the simulation: the six of SPREAD_RATES and the
\* classifier's "High CO2 Levels", which SPREAD_RATES does not know.
SimTypes == {"Gas Leak", "Fire", "Rock Fall", "Poor Ventilation",
             "Equipment Failure", "SOS - EMERGENCY", "High CO2 Levels"}

HazardLocations == {[lat |-> 0, lng |-> 0], [lat |-> 1, lng |-> 0]}

\* Worker positions: at the origin, either side of the critical radius of a
\* one-second gas leak (6.6), inside its high radius (13.4), on and beyond its
\* medium radius (20).
Positions == {<<0, 0>>, <<6, 0>>, <<7, 0>>, <<0, -13>>, <<12, 16>>, <<21, 0>>}

Workers == {[id |-> i, lat |-> p[1], lng |-> p[2]] : i \in 1..MaxWorkers, p \in Positions}

\* Lists of at most MaxWorkers workers, no id twice (ids identify workers).
WorkerLists ==
    UNION {{w \in [1..n -> Workers] : \A i, j \in 1..n : w[i].id = w[j].id => i = j}
           : n \in 0..MaxWorkers}

Requests == 1..NumRequests

\* A request that has not arrived yet.
NoRequest == [op |-> "none", pc |-> "idle"]

\* The id strings of request paths: n >= 1 stands for the 24-digit hex string
\* of the n-th ObjectId the store hands out, MalformedId for a string that is
\* no ObjectId (such as "abc").
MalformedId == 0

\* A well-formed id the store never hands out.
UnknownId == NumRequests + 1

HazardIdInputs == (1..NumRequests) \cup {UnknownId, MalformedId}

\* The status values a client sends: the four literals, another word, none.
StatusInputs == {"pending", "acknowledged", "escalated", "resolved", "bogus", None}

SectorA == [lat |-> 230450, lng |-> 813250, sector |-> "A"]

\* The JSON bodies posted to /api/sensor-data: a gas reading, a reading with
\* raised CO2 and no workerId, and a body with no readings at all.
SensorPayloads ==
    { [co2 |-> 1500, temperature |-> 60, humidity |-> 10, location |-> SectorA,
       workerId |-> "SENSOR_07"],
      [co2 |-> 900, temperature |-> 25, humidity |-> 60, location |-> SectorA],
      [location |-> SectorA] }

\* The JSON bodies posted to /api/hazard-reports: a full report, one with a
\* severity outside medium/high/critical, one with no severity, one with no
\* location and one with no type.
ReportPayloads ==
    { [type |-> "Fire", severity |-> "high", location |-> SectorA, worker |-> "W001",
       description |-> "smoke in tunnel 2"],
      [type |-> "Rock Fall", severity |-> "low", location |-> SectorA, worker |-> "W002"],
      [type |-> "Gas Leak", location |-> SectorA, worker |-> "W001"],
      [type |-> "Fire", severity |-> "high", worker |-> "W001"],
      [severity |-> "high", location |-> SectorA, worker |-> "W001"] }

-----------------------------------------------------------------------------
(* utils/simulation.py                                                     *)

\* C2 mutant: the heat check is made before the gas check.
detect_hazard_fire_first(co2, temperature, humidity) ==
    IF temperature > 40
      THEN <<"Fire", IF temperature > 55 THEN "critical" ELSE "high">>
    ELSE IF co2 > 1000
      THEN <<"Gas Leak", IF co2 > 2000 THEN "critical" ELSE "high">>
    ELSE IF humidity < 20
      THEN <<"Poor Ventilation", "medium">>
    ELSE IF 800 < co2 /\ co2 <= 1000
      THEN <<"High CO2 Levels", "medium">>
    ELSE <<None, None>>

\* C1 mutant: the gas threshold is tested with >= instead of >.
detect_hazard_inclusive(co2, temperature, humidity) ==
    IF co2 >= 1000
      THEN <<"Gas Leak", IF co2 > 2000 THEN "critical" ELSE "high">>
    ELSE IF temperature > 40
      THEN <<"Fire", IF temperature > 55 THEN "critical" ELSE "high">>
    ELSE IF humidity < 20
      THEN <<"Poor Ventilation", "medium">>
    ELSE IF 800 < co2 /\ co2 <= 1000
      THEN <<"High CO2 Levels", "medium">>
    ELSE <<None, None>>

\* HazardSimulation.detect_hazard_from_sensors: (hazard_type, severity).
detect_hazard_from_sensors(co2, temperature, humidity) ==
    IF co2 > 1000
      THEN <<"Gas Leak", IF co2 > 2000 THEN "critical" ELSE "high">>
    ELSE IF temperature > 40
      THEN <<"Fire", IF temperature > 55 THEN "critical" ELSE "high">>
    ELSE IF humidity < 20
      THEN <<"Poor Ventilation", "medium">>
    ELSE IF 800 < co2 /\ co2 <= 1000
      THEN <<"High CO2 Levels", "medium">>
    ELSE <<None, None>>


\* HazardSimulation.SPREAD_RATES, in units of 1e-4 per second.
SPREAD_RATES ==
    [t \in {"Gas Leak", "Fire", "Rock Fall", "Poor Ventilation",
            "Equipment Failure", "SOS - EMERGENCY"} |->
        CASE t = "Gas Leak" -> 20
          [] t = "Fire" -> 30
          [] t = "Rock Fall" -> 10
          [] t = "Poor Ventilation" -> 15
          [] t = "Equipment Failure" -> 8
          [] t = "SOS - EMERGENCY" -> 40]

\* SPREAD_RATES.get(hazard_type, 0.002)
SpreadRate(hazard_type) ==
    IF hazard_type \in DOMAIN SPREAD_RATES THEN SPREAD_RATES[hazard_type] ELSE 20

\* One entry of the danger_zones list; percent is the factor applied to
\* max_radius (0.33, 0.67, 1.0), so the radius is in units of 1e-6.
Zone(level, max_radius, percent, minutes) ==
    [level |-> level, radius |-> max_radius * percent, severity |-> level,
     evacuation_time_minutes |-> minutes]

\* C5 mutant: the factors of the critical and the high zone are exchanged.
calculate_danger_zones_swapped(hazard, simulation_time_seconds) ==
    LET max_radius == simulation_time_seconds * SpreadRate(hazard.type)
    IN  << Zone("critical", max_radius, 67, 1),
           Zone("high", max_radius, 33, 3),
           Zone("medium", max_radius, 100, 5) >>

\* HazardSimulation.calculate_danger_zones
calculate_danger_zones(hazard, simulation_time_seconds) ==
    LET max_radius == simulation_time_seconds * SpreadRate(hazard.type)
    IN  << Zone("critical", max_radius, 33, 1),
           Zone("high", max_radius, 67, 3),
           Zone("medium", max_radius, 100, 5) >>

\* HazardSimulation.get_action: the template chosen and the type put in it.
get_action(danger_level, hazard_type) ==
    CASE danger_level = "critical" -> <<"IMMEDIATE EVACUATION", hazard_type>>
      [] danger_level = "high" -> <<"EVACUATE AREA", hazard_type>>
      [] danger_level = "medium" -> <<"ALERT", hazard_type>>
      [] OTHER -> <<"Monitor situation", None>>

\* (worker_lat - hazard_lat) ** 2 + (worker_lng - hazard_lng) ** 2, the square
\* of the distance, in units of 1e-8.
DistanceSquared(hazard, worker) ==
    (worker.lat - hazard.location.lat) * (worker.lat - hazard.location.lat)
  + (worker.lng - hazard.location.lng) * (worker.lng - hazard.location.lng)

\* C8 mutant: the worker must be strictly inside the zone.
StrictlyInsideZone(distance_squared, radius) ==
    /\ radius >= 0
    /\ distance_squared * 10000 < radius * radius

\* distance <= zone['radius'] with distance = math.sqrt(distance_squared):
\* the square root is never negative, so a negative radius covers nothing,
\* and the radius counts 1e-6 where the distance counts 1e-4.
InsideZone(distance_squared, radius) ==
    /\ radius >= 0
    /\ distance_squared * 10000 <= radius * radius

\* The record appended for a worker found in a zone (name, role and sector
\* are copied from the worker; distance_from_hazard is the rounded distance).
AffectedRecord(hazard, worker, zone) ==
    [worker_id |-> worker.id,
     recommended_action |-> get_action(zone.level, hazard.type)]

RECURSIVE CheckZonesNoBreak(_, _, _, _, _)
\* C7 mutant: the loop over the zones goes on after the first match.
CheckZonesNoBreak(hazard, worker, danger_zones, k, acc) ==
    IF k > Len(danger_zones) THEN acc
    ELSE LET zone == danger_zones[k]
             next == IF InsideZone(DistanceSquared(hazard, worker), zone.radius)
                       THEN [acc EXCEPT ![zone.level] =
                                Append(@, AffectedRecord(hazard, worker, zone))]
                       ELSE acc
         IN  CheckZonesNoBreak(hazard, worker, danger_zones, k + 1, next)

RECURSIVE CheckZones(_, _, _, _, _)
\* for zone in danger_zones: if distance <= zone['radius']: append; break
CheckZones(hazard, worker, danger_zones, k, acc) ==
    IF k > Len(danger_zones) THEN acc
    ELSE LET zone == danger_zones[k]
         IN  IF InsideZone(DistanceSquared(hazard, worker), zone.radius)
               THEN [acc EXCEPT ![zone.level] =
                        Append(@, AffectedRecord(hazard, worker, zone))]
               ELSE CheckZones(hazard, worker, danger_zones, k + 1, acc)

RECURSIVE CheckWorkers(_, _, _, _, _)
\* for worker in workers: ...
CheckWorkers(hazard, workers, danger_zones, i, acc) ==
    IF i > Len(workers) THEN acc
    ELSE CheckWorkers(hazard, workers, danger_zones, i + 1,
                      CheckZones(hazard, workers[i], danger_zones, 1, acc))

\* HazardSimulation.get_affected_workers
get_affected_workers(hazard, workers, simulation_time_seconds) ==
    CheckWorkers(hazard, workers,
                 calculate_danger_zones(hazard, simulation_time_seconds), 1,
                 [critical |-> <<>>, high |-> <<>>, medium |-> <<>>])

\* The step of range(0, total_seconds, int(1 / frame_interval)) with
\* frame_interval = 1 / fps: the float quotient 1 / (1 / fps) truncates to fps
\* for every whole fps below 93 (fps = 93 is the first that gives fps - 1).
FrameStep(fps) == fps

\* list(range(0, total_seconds, step)) for a step >= 1
Range(total_seconds, step) ==
    [k \in 1..(IF total_seconds > 0 THEN (total_seconds + step - 1) \div step ELSE 0)
        |-> (k - 1) * step]

\* One frame of generate_simulation_frames.
Frame(hazard, workers, t) ==
    [time |-> t,
     danger_zones |-> calculate_danger_zones(hazard, t),
     affected_workers |-> get_affected_workers(hazard, workers, t),
     hazard_center |-> [lat |-> hazard.location.lat, lng |-> hazard.location.lng,
                        sector |-> hazard.location.sector]]

\* HazardSimulation.generate_simulation_frames
generate_simulation_frames(hazard, workers, total_seconds, fps) ==
    LET times == Range(total_seconds, FrameStep(fps))
    IN  [k \in 1..Len(times) |-> Frame(hazard, workers, times[k])]

-----------------------------------------------------------------------------
(* Specification of the classifier alone                                   *)

\* The frame generator's variables when it is not run.
FramesIdle ==
    /\ frameArgs = [total_seconds |-> 0, fps |-> 1]
    /\ frames = <<>>

\* The simulation variables when no simulation is run.
SimIdle ==
    /\ simHazard = [type |-> None, location |-> [lat |-> 0, lng |-> 0]]
    /\ simWorkers = <<>>
    /\ simTime = 0
    /\ zones = <<>>
    /\ affected = [critical |-> <<>>, high |-> <<>>, medium |-> <<>>]
    /\ FramesIdle

\* The store and the server before any request.
StoreInit ==
    /\ hazards = <<>>
    /\ sensorLog = 0
    /\ req = [r \in Requests |-> NoRequest]
    /\ emitted = {}
    /\ now = 0

InitClassifier ==
    /\ reading \in Readings
    /\ detected = <<None, None>>
    /\ called = {}
    /\ SimIdle
    /\ StoreInit

DetectHazardFromSensors ==
    /\ "detect_hazard_from_sensors" \notin called
    /\ detected' = detect_hazard_from_sensors(reading.co2, reading.temperature,
                                              reading.humidity)
    /\ called' = called \cup {"detect_hazard_from_sensors"}
    /\ UNCHANGED <<reading, simHazard, simWorkers, simTime, zones, affected, frameArgs, frames,
                 storeVars>>

NextClassifier == DetectHazardFromSensors

SpecClassifier == InitClassifier /\ [][NextClassifier]_vars

-----------------------------------------------------------------------------
(* Specification of the spread model and the exposure evaluator            *)

InitSimulation ==
    /\ reading = [co2 |-> 400, temperature |-> 25, humidity |-> 60]
    /\ detected = <<None, None>>
    /\ called = {}
    /\ simHazard \in [type : SimTypes, location : HazardLocations]
    /\ simWorkers \in WorkerLists
    /\ simTime \in -MaxTime..MaxTime
    /\ zones = <<>>
    /\ affected = [critical |-> <<>>, high |-> <<>>, medium |-> <<>>]
    /\ FramesIdle
    /\ StoreInit

CalculateDangerZones ==
    /\ "calculate_danger_zones" \notin called
    /\ zones' = calculate_danger_zones(simHazard, simTime)
    /\ called' = called \cup {"calculate_danger_zones"}
    /\ UNCHANGED <<reading, detected, simHazard, simWorkers, simTime, affected, frameArgs, frames,
                 storeVars>>

GetAffectedWorkers ==
    /\ "get_affected_workers" \notin called
    /\ affected' = get_affected_workers(simHazard, simWorkers, simTime)
    /\ called' = called \cup {"get_affected_workers"}
    /\ UNCHANGED <<reading, detected, simHazard, simWorkers, simTime, zones, frameArgs, frames,
                 storeVars>>

NextSimulation == CalculateDangerZones \/ GetAffectedWorkers

SpecSimulation == InitSimulation /\ [][NextSimulation]_vars

-----------------------------------------------------------------------------
(* Specification of the frame generator                                    *)

\* The hazard documents handed to the frame generator.
FrameHazards ==
    [type : SimTypes, location : {[lat |-> 0, lng |-> 0, sector |-> "A"]}]

InitFrames ==
    /\ reading = [co2 |-> 400, temperature |-> 25, humidity |-> 60]
    /\ detected = <<None, None>>
    /\ called = {}
    /\ simHazard \in FrameHazards
    /\ simWorkers \in WorkerLists
    /\ simTime = 0
    /\ zones = <<>>
    /\ affected = [critical |-> <<>>, high |-> <<>>, medium |-> <<>>]
    /\ frameArgs \in [total_seconds : -1..MaxTotalSeconds, fps : 1..MaxFps]
    /\ frames = <<>>
    /\ StoreInit

GenerateSimulationFrames ==
    /\ "generate_simulation_frames" \notin called
    /\ frames' = generate_simulation_frames(simHazard, simWorkers,
                                            frameArgs.total_seconds, frameArgs.fps)
    /\ called' = called \cup {"generate_simulation_frames"}
    /\ UNCHANGED <<reading, detected, simHazard, simWorkers, simTime, zones, affected,
                   frameArgs, storeVars>>

NextFrames == GenerateSimulationFrames

SpecFrames == InitFrames /\ [][NextFrames]_vars

-----------------------------------------------------------------------------
(* models.py                                                               *)

\* dict.get(key, default)
Get(dict, key, default) == IF key \in DOMAIN dict THEN dict[key] ELSE default

\* The document create_hazard builds from hazard_data at time timestamp.
HazardDocument(hazard_data, timestamp) ==
    [type |-> Get(hazard_data, "type", None),
     severity |-> Get(hazard_data, "severity", "medium"),
     location |-> [lat |-> Get(Get(hazard_data, "location", <<>>), "lat", None),
                   lng |-> Get(Get(hazard_data, "location", <<>>), "lng", None),
                   sector |-> Get(Get(hazard_data, "location", <<>>), "sector", None)],
     worker |-> Get(hazard_data, "worker", None),
     source |-> Get(hazard_data, "source", "WORKER"),
     timestamp |-> timestamp,
     status |-> "pending",
     description |-> Get(hazard_data, "description", ""),
     sensorData |->
        [co2 |-> Get(Get(hazard_data, "sensorData", <<>>), "co2", None),
         temperature |-> Get(Get(hazard_data, "sensorData", <<>>), "temperature", None),
         humidity |-> Get(Get(hazard_data, "sensorData", <<>>), "humidity", None)]]

\* C10 mutant: a document of the type and sector of a stored one is merged
\* into it instead of being inserted.
InsertOneMerging(collection, document) ==
    IF \E i \in 1..Len(collection) :
          /\ collection[i].type = document.type
          /\ collection[i].location.sector = document.location.sector
      THEN collection
      ELSE Append(collection, [_id |-> Len(collection) + 1] @@ document)

\* hazards_collection.insert_one: the document gets a fresh ObjectId.
InsertOne(collection, document) ==
    Append(collection, [_id |-> Len(collection) + 1] @@ document)

\* result.inserted_id of the insert that made collection
InsertedId(collection) == collection[Len(collection)]._id

\* ObjectId(hazard_id) raises InvalidId unless the string is an ObjectId.
IsObjectId(hazard_id) == hazard_id >= 1

\* HazardModel.get_hazard_by_id: find_one, as a list of at most one document.
get_hazard_by_id(collection, hazard_id) ==
    SelectSeq(collection, LAMBDA h : h._id = hazard_id)

\* C11 mutant: the update document lacks $set, so the stored document is
\* replaced by one holding the status alone.
UpdateOneReplacing(collection, hazard_id, status) ==
    [i \in DOMAIN collection |->
        IF collection[i]._id = hazard_id
          THEN [_id |-> hazard_id, status |-> status]
          ELSE collection[i]]

\* The collection after update_one({'_id': id}, {'$set': {'status': status}})
UpdateOne(collection, hazard_id, status) ==
    [i \in DOMAIN collection |->
        IF collection[i]._id = hazard_id
          THEN [collection[i] EXCEPT !.status = status]
          ELSE collection[i]]

\* UpdateResult.matched_count: the documents the filter selects.
MatchedCount(collection, hazard_id) ==
    Len(get_hazard_by_id(collection, hazard_id))

\* UpdateResult.modified_count: the documents the update changes; a document
\* whose status already is the new one is matched but not modified.
ModifiedCount(collection, hazard_id, status) ==
    Len(SelectSeq(collection, LAMBDA h : h._id = hazard_id /\ h.status # status))

-----------------------------------------------------------------------------
(* routes/sensors.py and routes/hazards.py                                 *)

\* valid_statuses of update_hazard_status
VALID_STATUSES == {"pending", "acknowledged", "escalated", "resolved"}

\* The hazard_data receive_sensor_data hands to create_hazard.
SensorHazardData(data, hazard_type, severity) ==
    [type |-> hazard_type,
     severity |-> severity,
     location |-> Get(data, "location", <<>>),
     worker |-> Get(data, "workerId", "SENSOR_01"),
     source |-> "IoT_SENSOR",
     description |-> <<"Auto-detected", Get(data, "co2", 400),
                       Get(data, "temperature", 25), Get(data, "humidity", 60)>>,
     sensorData |-> [co2 |-> Get(data, "co2", 400),
                     temperature |-> Get(data, "temperature", 25),
                     humidity |-> Get(data, "humidity", 60)]]

\* The classification receive_sensor_data makes of a request body.
Classify(data) ==
    detect_hazard_from_sensors(Get(data, "co2", 400), Get(data, "temperature", 25),
                               Get(data, "humidity", 60))

\* The 201 response of receive_sensor_data.
HazardDetectedResponse(hazard_type, severity, hazard) ==
    [code |-> 201, success |-> TRUE, hazardDetected |-> TRUE,
     hazardType |-> hazard_type, severity |-> severity, hazardId |-> hazard._id]

\* The 200 response of receive_sensor_data.
ReadingsNormalResponse == [code |-> 200, success |-> TRUE, hazardDetected |-> FALSE]

\* An error response.
ErrorResponse(code, error) == [code |-> code, error |-> error]

\* C9 mutant: the exception of a failed emit reaches the handler's outer
\* except clause.
EmitFailurePropagates(hazard_type, severity, hazard) ==
    ErrorResponse(500, "emit failed")

\* The response after an emit has raised: the inner except clause prints the
\* exception and the handler goes on to its return statement.
ResponseAfterEmitFailure(hazard_type, severity, hazard) ==
    HazardDetectedResponse(hazard_type, severity, hazard)

\* POST /api/sensor-data up to the classification: the reading is logged and
\* classified; without a hazard the request ends with 200.
ReceiveSensorData(r, data) ==
    /\ req[r].pc = "idle"
    /\ sensorLog' = sensorLog + 1
    /\ LET d == Classify(data)
       IN  req' = [req EXCEPT ![r] =
                IF d[1] # None
                  THEN [op |-> "sensor-data", pc |-> "create", data |-> data,
                        hazard_type |-> d[1], severity |-> d[2]]
                  ELSE [op |-> "sensor-data", pc |-> "done", data |-> data,
                        hazard_type |-> d[1], severity |-> d[2],
                        emit_failed |-> FALSE, resp |-> ReadingsNormalResponse]]
    /\ UNCHANGED <<hazards, emitted, now, simVars>>

\* create_hazard, first half: the document is stamped with utcnow(), which
\* has stood still or advanced since it was last read, and inserted.
CreateHazardInsert(r) ==
    /\ req[r].pc = "create"
    /\ now' \in {now, now + 1}
    /\ hazards' = InsertOne(hazards,
                            HazardDocument(SensorHazardData(req[r].data, req[r].hazard_type,
                                                            req[r].severity), now'))
    /\ req' = [req EXCEPT ![r] = [inserted_id |-> InsertedId(hazards'), pc |-> "fetch"] @@ @]
    /\ UNCHANGED <<sensorLog, emitted, simVars>>

\* create_hazard, second half: get_hazard_by_id(str(result.inserted_id)).
CreateHazardFetch(r) ==
    /\ req[r].pc = "fetch"
    /\ req' = [req EXCEPT ![r] =
                  [hazard |-> get_hazard_by_id(hazards, req[r].inserted_id)[1],
                   pc |-> "emit new-hazard"] @@ @]
    /\ UNCHANGED <<hazards, sensorLog, emitted, now, simVars>>

\* socketio.emit('new-hazard', hazard, broadcast=True) returns.
EmitNewHazard(r) ==
    /\ req[r].pc = "emit new-hazard"
    /\ emitted' = emitted \cup {<<"new-hazard", req[r].hazard._id>>}
    /\ req' = [req EXCEPT ![r] = [pc |-> "emit start-simulation"] @@ @]
    /\ UNCHANGED <<hazards, sensorLog, now, simVars>>

\* socketio.emit('start-simulation', ...) returns, and the handler too.
EmitStartSimulation(r) ==
    /\ req[r].pc = "emit start-simulation"
    /\ emitted' = emitted \cup {<<"start-simulation", req[r].hazard._id>>}
    /\ req' = [req EXCEPT ![r] =
                  [pc |-> "done", emit_failed |-> FALSE,
                   resp |-> HazardDetectedResponse(req[r].hazard_type, req[r].severity,
                                                   req[r].hazard)] @@ @]
    /\ UNCHANGED <<hazards, sensorLog, now, simVars>>

\* Either emit raises: the exception is caught and the handler returns.
EmitRaises(r) ==
    /\ req[r].pc \in {"emit new-hazard", "emit start-simulation"}
    /\ req' = [req EXCEPT ![r] =
                  [pc |-> "done", emit_failed |-> TRUE,
                   resp |-> ResponseAfterEmitFailure(req[r].hazard_type, req[r].severity,
                                                     req[r].hazard)] @@ @]
    /\ UNCHANGED <<hazards, sensorLog, emitted, now, simVars>>

\* PUT /api/hazards/<hazard_id>/status up to update_one: the status literal is
\* checked, then the id is parsed, then the store is updated.
UpdateHazardStatus(r, hazard_id, status) ==
    /\ req[r].pc = "idle"
    /\ LET request == [op |-> "status", hazard_id |-> hazard_id, status |-> status]
       IN  IF status \notin VALID_STATUSES
             THEN /\ req' = [req EXCEPT ![r] =
                        [pc |-> "done", resp |-> ErrorResponse(400, "Invalid status")]
                        @@ request]
                  /\ UNCHANGED hazards
           ELSE IF ~IsObjectId(hazard_id)
             THEN /\ req' = [req EXCEPT ![r] =
                        [pc |-> "done", resp |-> ErrorResponse(500, "InvalidId")]
                        @@ request]
                  /\ UNCHANGED hazards
           ELSE /\ hazards' = UpdateOne(hazards, hazard_id, status)
                /\ req' = [req EXCEPT ![r] =
                      [matched_count |-> MatchedCount(hazards, hazard_id),
                       modified_count |-> ModifiedCount(hazards, hazard_id, status)]
                      @@ (IF ModifiedCount(hazards, hazard_id, status) > 0
                            THEN [pc |-> "fetch updated"]
                            ELSE [pc |-> "done",
                                  resp |-> ErrorResponse(404, "Hazard not found")])
                      @@ request]
    /\ UNCHANGED <<sensorLog, emitted, now, simVars>>

\* HazardModel.update_hazard_status, second half: get_hazard_by_id, and the
\* route's response.
UpdateHazardStatusFetch(r) ==
    /\ req[r].pc = "fetch updated"
    /\ LET updated_hazard == get_hazard_by_id(hazards, req[r].hazard_id)
       IN  req' = [req EXCEPT ![r] =
                [pc |-> "done",
                 resp |-> IF Len(updated_hazard) = 0
                            THEN ErrorResponse(404, "Hazard not found")
                            ELSE [code |-> 200, success |-> TRUE,
                                  hazard |-> updated_hazard[1]]] @@ @]
    /\ UNCHANGED <<hazards, sensorLog, emitted, now, simVars>>

\* The hazard_data report_hazard hands to create_hazard, for a body that has
\* a location (the defaults of type and worker are never used: the route has
\* refused a body without them).
ReportHazardData(data) ==
    [type |-> Get(data, "type", None),
     severity |-> Get(data, "severity", "medium"),
     location |-> data.location,
     worker |-> Get(data, "worker", None),
     source |-> "WORKER",
     description |-> Get(data, "description", "")]

\* not data.get('type') or not data.get('worker')
MissingRequiredFields(data) == "type" \notin DOMAIN data \/ "worker" \notin DOMAIN data

\* data.get('location') is None: create_hazard then calls None.get('lat'),
\* which raises AttributeError before anything is inserted.
LocationIsNone(data) == "location" \notin DOMAIN data

\* POST /api/hazard-reports up to insert_one.
ReportHazard(r, data) ==
    /\ req[r].pc = "idle"
    /\ LET request == [op |-> "report", data |-> data]
       IN  IF MissingRequiredFields(data)
             THEN /\ req' = [req EXCEPT ![r] =
                        [pc |-> "done",
                         resp |-> ErrorResponse(400, "Missing required fields")] @@ request]
                  /\ UNCHANGED <<hazards, now>>
           ELSE IF LocationIsNone(data)
             THEN /\ req' = [req EXCEPT ![r] =
                        [pc |-> "done", resp |-> ErrorResponse(500, "AttributeError")]
                        @@ request]
                  /\ UNCHANGED <<hazards, now>>
           ELSE /\ now' \in {now, now + 1}
                /\ hazards' = InsertOne(hazards, HazardDocument(ReportHazardData(data), now'))
                /\ req' = [req EXCEPT ![r] =
                      [pc |-> "report fetch", inserted_id |-> InsertedId(hazards')]
                      @@ request]
    /\ UNCHANGED <<sensorLog, emitted, simVars>>

\* create_hazard's get_hazard_by_id, and the 201 response of report_hazard.
ReportHazardFetch(r) ==
    /\ req[r].pc = "report fetch"
    /\ LET hazard == get_hazard_by_id(hazards, req[r].inserted_id)[1]
       IN  req' = [req EXCEPT ![r] =
                [pc |-> "done", hazard |-> hazard,
                 resp |-> [code |-> 201, success |-> TRUE, hazardId |-> hazard._id]] @@ @]
    /\ UNCHANGED <<hazards, sensorLog, emitted, now, simVars>>

\* GET /api/hazards/<hazard_id>
GetHazard(r, hazard_id) ==
    /\ req[r].pc = "idle"
    /\ LET request == [op |-> "get", pc |-> "done", hazard_id |-> hazard_id]
           hazard == get_hazard_by_id(hazards, hazard_id)
       IN  req' = [req EXCEPT ![r] =
                [resp |-> IF ~IsObjectId(hazard_id)
                            THEN ErrorResponse(500, "InvalidId")
                          ELSE IF Len(hazard) = 0
                            THEN ErrorResponse(404, "Hazard not found")
                          ELSE [code |-> 200, hazard |-> hazard[1]]] @@ request]
    /\ UNCHANGED <<hazards, sensorLog, emitted, now, simVars>>

Init ==
    /\ reading = [co2 |-> 400, temperature |-> 25, humidity |-> 60]
    /\ detected = <<None, None>>
    /\ called = {}
    /\ SimIdle
    /\ StoreInit

Next ==
    \/ \E r \in Requests, data \in SensorPayloads : ReceiveSensorData(r, data)
    \/ \E r \in Requests : CreateHazardInsert(r)
    \/ \E r \in Requests : CreateHazardFetch(r)
    \/ \E r \in Requests : EmitNewHazard(r)
    \/ \E r \in Requests : EmitStartSimulation(r)
    \/ \E r \in Requests : EmitRaises(r)
    \/ \E r \in Requests, hazard_id \in HazardIdInputs, status \in StatusInputs :
          UpdateHazardStatus(r, hazard_id, status)
    \/ \E r \in Requests : UpdateHazardStatusFetch(r)

Spec == Init /\ [][Next]_vars

-----------------------------------------------------------------------------
(* Specification of the whole life of a hazard: worker reports, sensor     *)
(* ingest, status updates and reads                                        *)

\* The sensor bodies of this specification: the gas reading and the body with
\* no readings at all.
LifecycleSensorPayloads ==
    {p \in SensorPayloads : "co2" \notin DOMAIN p \/ p.co2 > 1000}

\* The status values of this specification: the four literals and another word.
LifecycleStatusInputs == StatusInputs \ {None}

NextLifecycle ==
    \/ \E r \in Requests, data \in ReportPayloads : ReportHazard(r, data)
    \/ \E r \in Requests : ReportHazardFetch(r)
    \/ \E r \in Requests, data \in LifecycleSensorPayloads : ReceiveSensorData(r, data)
    \/ \E r \in Requests : CreateHazardInsert(r)
    \/ \E r \in Requests : CreateHazardFetch(r)
    \/ \E r \in Requests : EmitNewHazard(r)
    \/ \E r \in Requests : EmitStartSimulation(r)
    \/ \E r \in Requests : EmitRaises(r)
    \/ \E r \in Requests, hazard_id \in HazardIdInputs, status \in LifecycleStatusInputs :
          UpdateHazardStatus(r, hazard_id, status)
    \/ \E r \in Requests : UpdateHazardStatusFetch(r)
    \/ \E r \in Requests, hazard_id \in HazardIdInputs : GetHazard(r, hazard_id)

SpecLifecycle == Init /\ [][NextLifecycle]_vars

-----------------------------------------------------------------------------
(* Specification of concurrent status updates of a hazard that is already  *)
(* in the store                                                            *)

GasPayload ==
    [co2 |-> 1500, temperature |-> 60, humidity |-> 10, location |-> SectorA,
     workerId |-> "SENSOR_07"]

\* The store after one sensor ingest of the gas reading has been handled:
\* the state Spec reaches by ReceiveSensorData, CreateHazardInsert,
\* CreateHazardFetch, EmitNewHazard and EmitStartSimulation, with the
\* answered request gone.
InitStatus ==
    /\ reading = [co2 |-> 400, temperature |-> 25, humidity |-> 60]
    /\ detected = <<None, None>>
    /\ called = {}
    /\ SimIdle
    /\ hazards = InsertOne(<<>>, HazardDocument(
                     SensorHazardData(GasPayload, Classify(GasPayload)[1],
                                      Classify(GasPayload)[2]), 0))
    /\ sensorLog = 1
    /\ req = [r \in Requests |-> NoRequest]
    /\ emitted = {<<"new-hazard", 1>>, <<"start-simulation", 1>>}
    /\ now = 0

NextStatus ==
    \/ \E r \in Requests, hazard_id \in HazardIdInputs, status \in StatusInputs :
          UpdateHazardStatus(r, hazard_id, status)
    \/ \E r \in Requests : UpdateHazardStatusFetch(r)

SpecStatus == InitStatus /\ [][NextStatus]_vars

-----------------------------------------------------------------------------
Classified == "detect_hazard_from_sensors" \in called

(* C1: for every reading the classifier returns the result of the first    *)
(* matching rule in the order gas (co2 > 1000), fire (temperature > 40),   *)
(* poor ventilation (humidity < 20), high CO2 (800 < co2 <= 1000), none.   *)
C1_FirstMatchingRule ==
    Classified =>
        LET c == reading.co2
            t == reading.temperature
            h == reading.humidity
        IN  /\ c > 2000 => detected = <<"Gas Leak", "critical">>
            /\ (c > 1000 /\ c <= 2000) => detected = <<"Gas Leak", "high">>
            /\ (c <= 1000 /\ t > 55) => detected = <<"Fire", "critical">>
            /\ (c <= 1000 /\ t > 40 /\ t <= 55) => detected = <<"Fire", "high">>
            /\ (c <= 1000 /\ t <= 40 /\ h < 20)
                  => detected = <<"Poor Ventilation", "medium">>
            /\ (c <= 1000 /\ c > 800 /\ t <= 40 /\ h >= 20)
                  => detected = <<"High CO2 Levels", "medium">>
            /\ (c <= 800 /\ t <= 40 /\ h >= 20) => detected = <<None, None>>
            /\ c = 1000 => detected[1] # "Gas Leak"
            /\ c = 1001 => detected = <<"Gas Leak", "high">>
            /\ c = 2001 => detected = <<"Gas Leak", "critical">>

\* C1 witness: co2 = 1000 with a hot, dry reading has been classified (Fire).
C1_Witness ==
    /\ Classified
    /\ reading.co2 = 1000
    /\ reading.temperature = 60
    /\ reading.humidity = 10
    /\ detected[1] = "Fire"

PriorityReading == [co2 |-> 1500, temperature |-> 60, humidity |-> 10]

(* C2 as stated: the reading co2 = 1500, temperature = 60, humidity = 10   *)
(* is classified Gas Leak with severity critical.                          *)
C2_AsStated ==
    (Classified /\ reading = PriorityReading)
        => detected = <<"Gas Leak", "critical">>

(* C2 amended: the reading co2 = 1500, temperature = 60, humidity = 10 is  *)
(* classified Gas Leak with severity high (critical needs co2 > 2000).     *)
C2_GasLeakHigh ==
    (Classified /\ reading = PriorityReading)
        => detected = <<"Gas Leak", "high">>

\* C2 witness: that reading has been classified.
C2_Witness ==
    /\ Classified
    /\ reading = PriorityReading

-----------------------------------------------------------------------------
ZonesCalled == "calculate_danger_zones" \in called

AffectedCalled == "get_affected_workers" \in called

Levels == <<"critical", "high", "medium">>

(* C5: for every hazard type and every elapsed time >= 0 the spread model  *)
(* returns exactly three zones in the order critical, high, medium; their  *)
(* radii are strictly increasing when the time is > 0 and all 0 at time 0. *)
C5_ThreeNestedZones ==
    (ZonesCalled /\ simTime >= 0) =>
        /\ Len(zones) = 3
        /\ \A k \in 1..3 : zones[k].level = Levels[k]
        /\ simTime > 0 => /\ zones[1].radius < zones[2].radius
                          /\ zones[2].radius < zones[3].radius
        /\ simTime = 0 => \A k \in 1..3 : zones[k].radius = 0

\* C5 witness: zones of a type SPREAD_RATES does not know, at a positive time.
C5_Witness ==
    /\ ZonesCalled
    /\ simTime > 0
    /\ simHazard.type = "High CO2 Levels"
    /\ zones[1].radius > 0

(* C6: for every hazard type and every elapsed time < 0 every zone radius  *)
(* returned by the spread model is 0.                                      *)
C6_NegativeTimeIsZero ==
    (ZonesCalled /\ simTime < 0) => \A k \in 1..Len(zones) : zones[k].radius = 0

\* The records of all three buckets, in one sequence.
AllAffected == affected.critical \o affected.high \o affected.medium

ExpectedRadius(k) ==
    simTime * SpreadRate(simHazard.type) * (CASE k = 1 -> 33 [] k = 2 -> 67 [] k = 3 -> 100)

\* The radius of the k-th zone is >= the worker's distance.
Reaches(k, worker) ==
    /\ ExpectedRadius(k) >= 0
    /\ DistanceSquared(simHazard, worker) * 10000 <= ExpectedRadius(k) * ExpectedRadius(k)

\* The worker's id is in the bucket of the k-th zone.
InBucket(k, worker) ==
    \E n \in 1..Len(affected[Levels[k]]) : affected[Levels[k]][n].worker_id = worker.id

(* C8: each worker is in the bucket of the most severe zone whose radius   *)
(* is >= its distance from the hazard origin, and in no bucket when its    *)
(* distance exceeds all three radii; a worker at the origin is in the      *)
(* critical bucket whenever the elapsed time is > 0.                       *)
C8_MostSevereZone ==
    AffectedCalled =>
        \A i \in 1..Len(simWorkers) :
            LET w == simWorkers[i]
            IN  /\ \A k \in 1..3 :
                      InBucket(k, w) <=> (Reaches(k, w) /\ \A m \in 1..(k - 1) : ~Reaches(m, w))
                /\ (simTime > 0 /\ DistanceSquared(simHazard, w) = 0) => InBucket(1, w)

\* C8 witness: at a positive time one worker stands on the hazard origin and
\* is in the critical bucket, another stands exactly on the medium radius and
\* is in the medium bucket.
C8_Witness ==
    /\ AffectedCalled
    /\ simTime > 0
    /\ \E i, j \in 1..Len(simWorkers) :
          /\ DistanceSquared(simHazard, simWorkers[i]) = 0
          /\ InBucket(1, simWorkers[i])
          /\ DistanceSquared(simHazard, simWorkers[j]) * 10000
                = ExpectedRadius(3) * ExpectedRadius(3)
          /\ InBucket(3, simWorkers[j])

-----------------------------------------------------------------------------
\* Request r is a status update that has been answered.
StatusAnswered(r) == req[r].op = "status" /\ req[r].pc = "done"

\* Some stored hazard has this id.
Stored(hazard_id) == \E i \in 1..Len(hazards) : hazards[i]._id = hazard_id

(* C3 as stated: a status update of a stored hazard to any of the four     *)
(* literals succeeds and returns the updated record, also when the new     *)
(* status equals the current one.                                          *)
C3_EveryTransitionSucceeds ==
    \A r \in Requests :
        (/\ StatusAnswered(r)
         /\ req[r].status \in {"pending", "acknowledged", "escalated", "resolved"}
         /\ "matched_count" \in DOMAIN req[r]
         /\ req[r].matched_count > 0)
        => /\ req[r].resp.code = 200
           /\ req[r].resp.hazard._id = req[r].hazard_id

(* C4 as stated: a status update with a status outside the four literals   *)
(* is answered 400, one with a valid status and an id matching no stored   *)
(* hazard is answered 404, and in both cases the store is left as it was.  *)
C4_FailuresReported ==
    [][\A r \in Requests :
          (req[r].pc = "idle" /\ req'[r].op = "status") =>
              /\ req'[r].status \notin {"pending", "acknowledged", "escalated", "resolved"}
                    => /\ req'[r].pc = "done"
                       /\ req'[r].resp.code = 400
                       /\ hazards' = hazards
              /\ (/\ req'[r].status \in {"pending", "acknowledged", "escalated", "resolved"}
                  /\ ~Stored(req'[r].hazard_id))
                    => /\ req'[r].pc = "done"
                       /\ req'[r].resp.code = 404
                       /\ hazards' = hazards]_vars

\* Request r is a sensor ingest that has been answered.
IngestAnswered(r) == req[r].op = "sensor-data" /\ req[r].pc = "done"

(* C9: when a hazard was detected and an emit then raised, the request is  *)
(* answered 201 with the id of the hazard created, and that hazard is in   *)
(* the store with the fields it was created with.                          *)
C9_BroadcastFailureIsSwallowed ==
    \A r \in Requests :
        (IngestAnswered(r) /\ req[r].emit_failed) =>
            /\ req[r].resp.code = 201
            /\ req[r].resp.success
            /\ req[r].resp.hazardId = req[r].inserted_id
            /\ \E i \in 1..Len(hazards) :
                  /\ hazards[i]._id = req[r].inserted_id
                  /\ [hazards[i] EXCEPT !.status = req[r].hazard.status] = req[r].hazard
                  /\ hazards[i].type = req[r].hazard_type
                  /\ hazards[i].severity = req[r].severity

\* C9 witness: the first emit went through, the second raised, and the
\* request has been answered.
C9_Witness ==
    \E r \in Requests :
        /\ IngestAnswered(r)
        /\ req[r].emit_failed
        /\ <<"new-hazard", req[r].inserted_id>> \in emitted
        /\ <<"start-simulation", req[r].inserted_id>> \notin emitted

\* Request r carries a reading the classifier takes for a hazard.
HazardClassified(r) ==
    /\ req[r].op = "sensor-data"
    /\ Classify(req[r].data)[1] # None

\* Request r has been through the insert of create_hazard.
PastInsert(r) == "inserted_id" \in DOMAIN req[r]

SensorHazards == SelectSeq(hazards, LAMBDA h : h.source = "IoT_SENSOR")

(* C10: under every interleaving each hazard-classified ingest request     *)
(* creates a hazard of its own with a distinct id, and a request whose     *)
(* reading is normal creates none: the sensor-sourced hazards are as many  *)
(* as the hazard-classified requests that have made their insert, so as    *)
(* many as the completed ones once none is in flight.                      *)
C10_OneHazardPerDetection ==
    /\ \A i, j \in 1..Len(hazards) : hazards[i]._id = hazards[j]._id => i = j
    /\ \A r \in Requests :
          /\ PastInsert(r) => (HazardClassified(r) /\ Stored(req[r].inserted_id))
          /\ (IngestAnswered(r) /\ HazardClassified(r)) =>
                (PastInsert(r) /\ req[r].resp.hazardId = req[r].inserted_id)
          /\ (IngestAnswered(r) /\ ~HazardClassified(r)) => req[r].resp.code = 200
    /\ \A r1, r2 \in Requests :
          (PastInsert(r1) /\ PastInsert(r2) /\ r1 # r2)
              => req[r1].inserted_id # req[r2].inserted_id
    /\ Len(SensorHazards) = Cardinality({r \in Requests : PastInsert(r)})
    /\ (\A r \in Requests : IngestAnswered(r))
          => Len(SensorHazards) = Cardinality({r \in Requests : HazardClassified(r)})

\* C10 witness: two requests with the same gas reading from the same sector
\* are in flight together, both past their insert and neither answered, and
\* each has a hazard of its own.
C10_Witness ==
    \E r1, r2 \in Requests :
        /\ r1 # r2
        /\ PastInsert(r1) /\ PastInsert(r2)
        /\ req[r1].pc # "done" /\ req[r2].pc # "done"
        /\ req[r1].data = req[r2].data
        /\ req[r1].inserted_id # req[r2].inserted_id
        /\ Len(SensorHazards) = 2
        /\ SensorHazards[1].type = SensorHazards[2].type

-----------------------------------------------------------------------------
FramesCalled == "generate_simulation_frames" \in called

\* d seconds is 1/fps rounded to a whole number of seconds, whichever way a
\* half is rounded: |d - 1/fps| <= 1/2.
IsRoundedInterval(d, fps) ==
    /\ 2 * (d * fps - 1) <= fps
    /\ 2 * (1 - d * fps) <= fps

(* C12 as stated: the frame times start at 0, are strictly increasing, are *)
(* all less than totalSeconds and advance by 1/fps rounded to whole        *)
(* seconds; each frame holds the zones and the affected workers of the     *)
(* spread model and the exposure evaluator at its time.                    *)
C12_FramesEveryInterval ==
    FramesCalled =>
        /\ Len(frames) > 0 => frames[1].time = 0
        /\ \A k \in 1..Len(frames) :
              /\ frames[k].time < frameArgs.total_seconds
              /\ frames[k].danger_zones
                    = calculate_danger_zones(simHazard, frames[k].time)
              /\ frames[k].affected_workers
                    = get_affected_workers(simHazard, simWorkers, frames[k].time)
        /\ \A k \in 1..(Len(frames) - 1) :
              /\ frames[k].time < frames[k + 1].time
              /\ IsRoundedInterval(frames[k + 1].time - frames[k].time, frameArgs.fps)

-----------------------------------------------------------------------------
(* C11: every hazard is created with status pending, by the report path    *)
(* and by the sensor path; no step removes a hazard or changes any field   *)
(* of a stored hazard other than its status; and a status changes only in  *)
(* the hazard a status update addresses, to the status it asks for.        *)
C11_OnlyStatusChanges ==
    [][/\ Len(hazards') >= Len(hazards)
       /\ \A i \in (Len(hazards) + 1)..Len(hazards') : hazards'[i].status = "pending"
       /\ \A i \in 1..Len(hazards) :
             /\ [hazards'[i] EXCEPT !.status = hazards[i].status] = hazards[i]
             /\ hazards'[i].status # hazards[i].status =>
                   \E r \in Requests :
                       /\ req[r].pc = "idle"
                       /\ req'[r].op = "status"
                       /\ req'[r].hazard_id = hazards[i]._id
                       /\ req'[r].status = hazards'[i].status]_vars

\* C11 witness: a hazard a worker reported has been resolved by a status
\* update that was answered 200: it still is in the store, with the worker's
\* type and the time it was stamped with at creation.
C11_Witness ==
    \E r \in Requests, i \in 1..Len(hazards) :
        /\ StatusAnswered(r)
        /\ req[r].resp.code = 200
        /\ req[r].hazard_id = hazards[i]._id
        /\ hazards[i].source = "WORKER"
        /\ hazards[i].status = "resolved"
        /\ hazards[i].timestamp = 1
        /\ hazards[i].type = "Fire"

(* C13 as stated: every stored hazard has a severity among medium, high    *)
(* and critical, whichever path created it and whatever severity the       *)
(* worker's report carried.                                                *)
C13_SeverityInRange ==
    \A i \in 1..Len(hazards) : hazards[i].severity \in {"medium", "high", "critical"}

-----------------------------------------------------------------------------
(* C14 as stated: concurrent status updates of the same stored hazard with *)
(* valid statuses all succeed and return a record, none is rejected        *)
(* because of the other, and the stored status then is the one of a write. *)
(* Stated for two requests that both ask for a status other than the       *)
(* pending the hazard has before them, so that each would succeed alone.   *)
C14_NoneRejected ==
    \A r1, r2 \in Requests :
        (/\ r1 # r2
         /\ StatusAnswered(r1) /\ StatusAnswered(r2)
         /\ req[r1].hazard_id = req[r2].hazard_id
         /\ Stored(req[r1].hazard_id)
         /\ req[r1].status \in {"acknowledged", "escalated", "resolved"}
         /\ req[r2].status \in {"acknowledged", "escalated", "resolved"})
        => /\ req[r1].resp.code = 200
           /\ req[r2].resp.code = 200
           /\ \E i \in 1..Len(hazards) :
                 /\ hazards[i]._id = req[r1].hazard_id
                 /\ hazards[i].status \in {req[r1].status, req[r2].status}

====
